---- MODULE Spec2Model ----
(***************************************************************************)
(* A model of omcache.py, the cffi binding of the OMcache memcached        *)
(* client.  The binding forwards every call to the native library and      *)
(* turns the returned status code into a return value or an exception.     *)
(*                                                                         *)
(* Python values are modelled as follows.  An optional value is a sequence *)
(* of length at most one: None is <<>>, the value v is <<v>>.  Byte        *)
(* strings are sequences of small integers.  The native status codes are   *)
(* named by strings.  The outcome of a call is a record saying whether the *)
(* call returned or raised, and what.                                      *)
(***************************************************************************)
EXTENDS Integers, Sequences, FiniteSets, TLC

VARIABLES
    omc,              \* self.omc: "unset" (no attribute), "None", or a handle
    initReturned,     \* handles omcache_init has returned for this object
    freed,            \* sequence of the arguments of omcache_free so far
    _buffering,       \* self._buffering
    _conn_timeout,    \* self._conn_timeout   (optional)
    _reconn_timeout,  \* self._reconn_timeout (optional)
    _dead_timeout,    \* self._dead_timeout   (optional)
    io_timeout,       \* self.io_timeout      (<<>> while not yet assigned)
    _cucpp,           \* module-level scratch: bytes the value pointer points to
    _sizep,           \* module-level scratch: value length
    _u32p,            \* module-level scratch: flags
    _u64p,            \* module-level scratch: CAS token / counter value
    coreBuffering,    \* native core: buffering enabled
    queue,            \* native core: requests queued and not yet flushed
    last,             \* the most recent call on the client and its outcome
    ndel,             \* number of __del__ invocations so far
    ncalls,           \* number of calls made on the client so far
    tpc,              \* per thread: position inside get / increment
    tcall,            \* per thread: the call in progress and what the core produced
    tres              \* per thread: outcome of the finished call

cvars == <<omc, initReturned, freed, _buffering, _conn_timeout, _reconn_timeout,
           _dead_timeout, io_timeout, coreBuffering, queue, last, ndel, ncalls>>
gvars == <<_cucpp, _sizep, _u32p, _u64p>>
tvars == <<tpc, tcall, tres>>
vars == <<omc, initReturned, freed, _buffering, _conn_timeout, _reconn_timeout,
          _dead_timeout, io_timeout, _cucpp, _sizep, _u32p, _u64p,
          coreBuffering, queue, last, ndel, ncalls, tpc, tcall, tres>>

----------------------------------------------------------------------------
(* Bounds of the model *)

\* the native core refuses to queue more than this many requests
MaxQueue == 2
\* calls made on one client after its construction
MaxCalls == 3
\* __del__ is invoked at most this many times on one object
MaxDel == 2

----------------------------------------------------------------------------
(* Python values *)

None == <<>>
Some(v) == <<v>>
NULL == "NULL"

\* self.io_timeout = 1000 in __init__
DefaultIoTimeout == 1000
\* def flush(self, timeout=-1)
FlushDefaultTimeout == -1

\* native status codes (omcache_cdef.h), by name
OMCACHE_OK == "OMCACHE_OK"
OMCACHE_NOT_FOUND == "OMCACHE_NOT_FOUND"
OMCACHE_KEY_EXISTS == "OMCACHE_KEY_EXISTS"
OMCACHE_AGAIN == "OMCACHE_AGAIN"
OMCACHE_INVALID == "OMCACHE_INVALID"
OMCACHE_BUFFERED == "OMCACHE_BUFFERED"

Statuses == {OMCACHE_OK, OMCACHE_NOT_FOUND, OMCACHE_KEY_EXISTS,
             OMCACHE_AGAIN, OMCACHE_INVALID, OMCACHE_BUFFERED}

\* inputs of the calls
Handles == {"h1"}
MsecVals == {250}
TimeoutArgs == {None, Some(0)}
FlushArgs == {None, Some(0)}
BufVals == {<<1>>, <<2, 3>>}
FlagVals == {7}
U64Vals == {42}

----------------------------------------------------------------------------
(* Exceptions and outcomes *)

NoMsg == [prefix |-> "", errstr |-> ""]

\* "{0}: {1}".format(name, errstr)
Format(name, errstr) == [prefix |-> name, errstr |-> errstr]

\* omcache_strerror(ret): the text of a status
omcache_strerror(ret) == ret

\* the call returns a value of the given Python type
Return(type, status, items) ==
    [kind |-> "return", type |-> type, status |-> status, items |-> items,
     exc |-> "", msg |-> NoMsg]

\* class CommandError: status is the class attribute (None) unless given
CommandError(msg, status) ==
    [kind |-> "raise", type |-> "", status |-> status, items |-> <<>>,
     exc |-> "CommandError", msg |-> msg]

\* class NotFoundError(CommandError): status = OMCACHE_NOT_FOUND
NotFoundError ==
    [kind |-> "raise", type |-> "", status |-> Some(OMCACHE_NOT_FOUND), items |-> <<>>,
     exc |-> "NotFoundError", msg |-> NoMsg]

\* class KeyExistsError(CommandError): status = OMCACHE_KEY_EXISTS
KeyExistsError ==
    [kind |-> "raise", type |-> "", status |-> Some(OMCACHE_KEY_EXISTS), items |-> <<>>,
     exc |-> "KeyExistsError", msg |-> NoMsg]

\* _ffi.buffer(ptr, size)[:]
Buffer(ptr, size) == SubSeq(ptr, 1, size)

\* a bug: every status of a call without a return buffer is returned
OmcCheckSwallow(name, ret, return_buffer, cucpp, sizep) ==
    IF return_buffer /\ ret = OMCACHE_OK
    THEN Return("bytes", None, <<Buffer(cucpp, sizep)>>)
    ELSE IF ~return_buffer
    THEN Return("status", Some(ret), <<>>)
    ELSE IF ret = OMCACHE_NOT_FOUND THEN NotFoundError
    ELSE IF ret = OMCACHE_KEY_EXISTS THEN KeyExistsError
    ELSE CommandError(Format(name, omcache_strerror(ret)), Some(ret))

\* OMcache._omc_check(name, ret, return_buffer), reading the scratch value
\* pointer and size
_omc_check(name, ret, return_buffer, cucpp, sizep) ==
    IF return_buffer /\ ret = OMCACHE_OK
    THEN Return("bytes", None, <<Buffer(cucpp, sizep)>>)
    ELSE IF ~return_buffer /\ (ret = OMCACHE_OK \/ ret = OMCACHE_BUFFERED)
    THEN Return("status", Some(ret), <<>>)
    ELSE IF ret = OMCACHE_NOT_FOUND THEN NotFoundError
    ELSE IF ret = OMCACHE_KEY_EXISTS THEN KeyExistsError
    ELSE CommandError(Format(name, omcache_strerror(ret)), Some(ret))

\* _omc_return(self, name=None, return_buffer=False): the binding of the
\* positional arguments of a call _omc_return(a1, ...) to its parameters
_omc_return(posargs) ==
    [self |-> IF Len(posargs) >= 1 THEN Some(posargs[1]) ELSE None,
     name |-> IF Len(posargs) >= 2 THEN Some(posargs[2]) ELSE None,
     return_buffer |-> IF Len(posargs) >= 3 THEN posargs[3] ELSE FALSE]

\* name or func.__name__
NameOr(name, funcname) == IF name # None /\ name # Some("") THEN name[1] ELSE funcname

\* check_rc_wrapper of the decorator made by _omc_return(native) around the
\* method func: the outcome for the status ret returned by func
check_rc_wrapper(native, func, ret) ==
    LET d == _omc_return(<<native>>)
    IN  _omc_check(NameOr(d.name, func), ret, d.return_buffer, _cucpp, _sizep)

\* a bug: a per-call timeout of 0 is taken for "not given"
EffTimeoutTruthy(timeout, default) ==
    IF timeout # None /\ timeout[1] # 0 THEN timeout[1] ELSE default[1]

\* timeout = timeout if timeout is not None else self.io_timeout
EffTimeout(timeout, default) ==
    IF timeout # None THEN timeout[1] ELSE default[1]

\* a bug: flags and cas change places in the result
GetResultSwapped(out, flags, cas, u32, u64) ==
    IF out.kind # "return" THEN out
    ELSE IF ~flags /\ ~cas THEN out
    ELSE IF flags /\ cas THEN Return("tuple", None, <<out.items[1], u64, u32>>)
    ELSE IF flags THEN Return("tuple", None, <<out.items[1], u64>>)
    ELSE Return("tuple", None, <<out.items[1], u32>>)

\* OMcache.get after _omc_check: the shape of the result
GetResult(out, flags, cas, u32, u64) ==
    IF out.kind # "return" THEN out
    ELSE IF ~flags /\ ~cas THEN out
    ELSE IF flags /\ cas THEN Return("tuple", None, <<out.items[1], u32, u64>>)
    ELSE IF flags THEN Return("tuple", None, <<out.items[1], u32>>)
    ELSE Return("tuple", None, <<out.items[1], u64>>)

\* OMcache.increment / decrement after _omc_check
CounterResult(out, u64) ==
    IF out.kind # "return" THEN out
    ELSE IF out.status # Some(OMCACHE_OK) THEN Return("NoneType", None, <<>>)
    ELSE Return("int", None, <<u64>>)

----------------------------------------------------------------------------
(* The native core, as far as the binding observes it *)

\* statuses a configuration call, reset or flush of the core can return
ConfigStatuses == Statuses \ {OMCACHE_BUFFERED}

\* statuses a data operation of the core can return: a request is queued
\* (BUFFERED) only while buffering is enabled and the queue has room
DataStatuses(buffering, q) ==
    IF buffering /\ Len(q) < MaxQueue THEN Statuses ELSE Statuses \ {OMCACHE_BUFFERED}

\* the queue of the core after a data operation that returned ret
Enqueue(q, ret) == IF ret = OMCACHE_BUFFERED THEN Append(q, Len(q) + 1) ELSE q

\* omcache_io(mc, timeout, req_id, resp): on OK every queued request has got
\* its response, in queue order; the responses are handed back through resp
omcache_io(q, resp, ret) ==
    [queue |-> IF ret = OMCACHE_OK THEN <<>> ELSE q,
     responses |-> IF ret = OMCACHE_OK /\ resp # NULL THEN q ELSE <<>>]

\* omcache_reset_buffers(mc): on OK the queued requests are discarded
omcache_reset_buffers(q, ret) == IF ret = OMCACHE_OK THEN <<>> ELSE q

----------------------------------------------------------------------------
(* The client object *)

Usable == omc \in Handles /\ io_timeout # None /\ ncalls < MaxCalls

NoData == [buf |-> <<>>, u32 |-> 0, u64 |-> 0]

\* the record kept of a call: the method and the native name written at its
\* decorator or _omc_check call, the timeout argument and the io_timeout at
\* the call, the timeout and result pointers handed to the core, what the
\* core stored and the status it returned, the outcome of the call, the value
\* the matching getter returned before the call, the queue before the call
Call(op, native, arg, timeout, flags, cas, flagsp, casp, core, ret, out, before) ==
    [op |-> op, native |-> native, arg |-> arg, io |-> io_timeout,
     timeout |-> timeout, flags |-> flags, cas |-> cas,
     flagsp |-> flagsp, casp |-> casp,
     core |-> core, ret |-> ret, out |-> out, before |-> before,
     pending |-> IF op \in {"flush", "reset_buffers"} THEN queue ELSE <<>>]

\* a call of a decorated method that takes no timeout
ConfigCall(op, native, ret, before) ==
    Call(op, native, None, None, FALSE, FALSE, NULL, NULL, NoData, ret,
         check_rc_wrapper(native, op, ret), before)

\* OMcache.__init__: omcache_init either fails (initOk = FALSE) or returns
\* the handle h; set_servers gets the status ret from the core
OMcacheInit(initOk, h, ret) ==
    LET out == check_rc_wrapper("omcache_set_servers", "set_servers", ret)
    IN  /\ omc = IF initOk THEN h ELSE "unset"
        /\ initReturned = IF initOk THEN {h} ELSE {}
        /\ freed = <<>>
        /\ ndel = 0
        /\ ncalls = 0
        /\ _buffering = FALSE
        /\ _conn_timeout = None
        /\ _reconn_timeout = None
        /\ _dead_timeout = None
        /\ io_timeout = IF initOk /\ out.kind = "return" THEN Some(DefaultIoTimeout) ELSE None
        /\ coreBuffering = FALSE
        /\ queue = <<>>
        /\ last = [op |-> IF initOk THEN "set_servers" ELSE "omcache_init",
                   native |-> IF initOk THEN "omcache_set_servers" ELSE "omcache_init",
                   arg |-> None, io |-> None, timeout |-> None,
                   flags |-> FALSE, cas |-> FALSE, flagsp |-> NULL, casp |-> NULL,
                   core |-> NoData,
                   ret |-> IF initOk THEN ret ELSE OMCACHE_INVALID,
                   out |-> IF initOk THEN out ELSE CommandError(NoMsg, None),
                   before |-> None, pending |-> <<>>]

Threads == {1, 2}

NoCall == [op |-> "", native |-> "", flags |-> FALSE, cas |-> FALSE, ret |-> OMCACHE_OK,
           buf |-> <<>>, u32 |-> 0, u64 |-> 0]
NoResult == Return("", None, <<>>)

\* the module-level scratch cells after import
InitGlobals ==
    /\ _cucpp = <<>>
    /\ _sizep = 0
    /\ _u32p = 0
    /\ _u64p = 0

InitThreads ==
    /\ tpc = [t \in Threads |-> "idle"]
    /\ tcall = [t \in Threads |-> NoCall]
    /\ tres = [t \in Threads |-> NoResult]

Init ==
    /\ \E initOk \in BOOLEAN, h \in Handles, ret \in ConfigStatuses :
           OMcacheInit(initOk, h, ret)
    /\ InitGlobals
    /\ InitThreads

\* a bug: the handle is released but self.omc keeps it
DelKeepsHandle ==
    /\ ndel < MaxDel
    /\ ndel' = ndel + 1
    /\ LET o == IF omc = "unset" THEN "None" ELSE omc
       IN  IF o # "None"
           THEN /\ freed' = Append(freed, o)
                /\ omc' = omc
           ELSE UNCHANGED <<freed, omc>>
    /\ UNCHANGED <<initReturned, _buffering, _conn_timeout, _reconn_timeout,
                   _dead_timeout, io_timeout, coreBuffering, queue, last, ncalls>>
    /\ UNCHANGED gvars /\ UNCHANGED tvars

\* OMcache.__del__
Del ==
    /\ ndel < MaxDel
    /\ ndel' = ndel + 1
    /\ LET o == IF omc = "unset" THEN "None" ELSE omc
       IN  IF o # "None"
           THEN /\ freed' = Append(freed, o)
                /\ omc' = "None"
           ELSE UNCHANGED <<freed, omc>>
    /\ UNCHANGED <<initReturned, _buffering, _conn_timeout, _reconn_timeout,
                   _dead_timeout, io_timeout, coreBuffering, queue, last, ncalls>>
    /\ UNCHANGED gvars /\ UNCHANGED tvars

\* what every method leaves alone
Rest ==
    /\ ncalls' = ncalls + 1
    /\ UNCHANGED <<omc, initReturned, freed, ndel>>
    /\ UNCHANGED tvars

\* OMcache.set_servers
SetServers ==
    /\ Usable
    /\ \E ret \in ConfigStatuses :
           last' = ConfigCall("set_servers", "omcache_set_servers", ret, None)
    /\ UNCHANGED <<_buffering, _conn_timeout, _reconn_timeout, _dead_timeout,
                   io_timeout, coreBuffering, queue>>
    /\ UNCHANGED gvars /\ Rest

\* connect_timeout setter
SetConnectTimeout ==
    /\ Usable
    /\ \E msec \in MsecVals, ret \in ConfigStatuses :
           /\ _conn_timeout' = Some(msec)
           /\ last' = ConfigCall("connect_timeout", "omcache_set_connect_timeout", ret,
                                 _conn_timeout)
    /\ UNCHANGED <<_buffering, _reconn_timeout, _dead_timeout,
                   io_timeout, coreBuffering, queue>>
    /\ UNCHANGED gvars /\ Rest

\* reconnect_timeout setter
SetReconnectTimeout ==
    /\ Usable
    /\ \E msec \in MsecVals, ret \in ConfigStatuses :
           /\ _reconn_timeout' = Some(msec)
           /\ last' = ConfigCall("reconnect_timeout", "omcache_set_reconnect_timeout", ret,
                                 _reconn_timeout)
    /\ UNCHANGED <<_buffering, _conn_timeout, _dead_timeout,
                   io_timeout, coreBuffering, queue>>
    /\ UNCHANGED gvars /\ Rest

\* dead_timeout setter
SetDeadTimeout ==
    /\ Usable
    /\ \E msec \in MsecVals, ret \in ConfigStatuses :
           /\ _dead_timeout' = Some(msec)
           /\ last' = ConfigCall("dead_timeout", "omcache_set_dead_timeout", ret,
                                 _dead_timeout)
    /\ UNCHANGED <<_buffering, _conn_timeout, _reconn_timeout,
                   io_timeout, coreBuffering, queue>>
    /\ UNCHANGED gvars /\ Rest

\* buffering setter; the core takes the new setting when it returns OK
SetBuffering ==
    /\ Usable
    /\ \E enabled \in BOOLEAN, ret \in ConfigStatuses :
           /\ _buffering' = IF enabled THEN TRUE ELSE FALSE
           /\ coreBuffering' = IF ret = OMCACHE_OK THEN enabled ELSE coreBuffering
           /\ last' = ConfigCall("buffering", "omcache_set_buffering", ret,
                                 Some(_buffering))
    /\ UNCHANGED <<_conn_timeout, _reconn_timeout, _dead_timeout, io_timeout, queue>>
    /\ UNCHANGED gvars /\ Rest

\* assignment to the plain attribute io_timeout
SetIoTimeout ==
    /\ Usable
    /\ \E msec \in MsecVals : io_timeout' = Some(msec)
    /\ UNCHANGED <<_buffering, _conn_timeout, _reconn_timeout, _dead_timeout,
                   coreBuffering, queue, last>>
    /\ UNCHANGED gvars /\ Rest

\* OMcache.reset_buffers
ResetBuffers ==
    /\ Usable
    /\ \E ret \in ConfigStatuses :
           /\ queue' = omcache_reset_buffers(queue, ret)
           /\ last' = ConfigCall("reset_buffers", "omcache_reset_buffers", ret, None)
    /\ UNCHANGED <<_buffering, _conn_timeout, _reconn_timeout, _dead_timeout,
                   io_timeout, coreBuffering>>
    /\ UNCHANGED gvars /\ Rest

\* OMcache.flush: omcache_io(self.omc, timeout, 0, _ffi.NULL); what the
\* caller gets is the checked status
Flush ==
    /\ Usable
    /\ \E arg \in FlushArgs, ret \in ConfigStatuses :
           LET timeout == IF arg # None THEN arg[1] ELSE FlushDefaultTimeout
               io == omcache_io(queue, NULL, ret)
           IN  /\ queue' = io.queue
               /\ last' = Call("flush", "omcache_io", arg, Some(timeout), FALSE, FALSE,
                               NULL, NULL, NoData, ret, check_rc_wrapper("omcache_io", "flush", ret),
                               None)
    /\ UNCHANGED <<_buffering, _conn_timeout, _reconn_timeout, _dead_timeout,
                   io_timeout, coreBuffering>>
    /\ UNCHANGED gvars /\ Rest

\* the body shared by noop, stat, set, add, replace and delete: the timeout
\* is chosen, the core is called, the decorator checks the status
Dispatch(native, func) ==
    /\ Usable
    /\ \E arg \in TimeoutArgs, ret \in DataStatuses(coreBuffering, queue) :
           /\ queue' = Enqueue(queue, ret)
           /\ last' = Call(func, native, arg, Some(EffTimeout(arg, io_timeout)),
                           FALSE, FALSE, NULL, NULL, NoData, ret,
                           check_rc_wrapper(native, func, ret), None)
    /\ UNCHANGED <<_buffering, _conn_timeout, _reconn_timeout, _dead_timeout,
                   io_timeout, coreBuffering>>
    /\ UNCHANGED gvars /\ Rest

\* OMcache.noop
Noop == Dispatch("omcache_noop", "noop")
\* OMcache.stat
Stat == Dispatch("omcache_stat", "stat")
\* OMcache.set
Set == Dispatch("omcache_set", "set")
\* OMcache.add
Add == Dispatch("omcache_add", "add")
\* OMcache.replace
Replace == Dispatch("omcache_replace", "replace")
\* OMcache.delete
Delete == Dispatch("omcache_delete", "delete")

\* omcache_get: on OK the core stores the value pointer and length, and the
\* flags and CAS token where the pointer given for them is not NULL
GetWrites(ret, flagsp, casp, buf, f, c) ==
    IF ret = OMCACHE_OK
    THEN /\ _cucpp' = buf
         /\ _sizep' = Len(buf)
         /\ _u32p' = IF flagsp # NULL THEN f ELSE _u32p
         /\ _u64p' = IF casp # NULL THEN c ELSE _u64p
    ELSE UNCHANGED gvars

\* what omcache_get stored, for the record of the call
GetData(ret, flagsp, casp, buf, f, c) ==
    IF ret = OMCACHE_OK
    THEN [buf |-> buf, u32 |-> IF flagsp # NULL THEN f ELSE 0,
          u64 |-> IF casp # NULL THEN c ELSE 0]
    ELSE NoData

\* omcache_increment / omcache_decrement: on OK the core stores the counter
CounterWrites(ret, c) ==
    IF ret = OMCACHE_OK
    THEN _u64p' = c /\ UNCHANGED <<_cucpp, _sizep, _u32p>>
    ELSE UNCHANGED gvars

\* what omcache_increment / omcache_decrement stored
CounterData(ret, c) ==
    IF ret = OMCACHE_OK THEN [buf |-> <<>>, u32 |-> 0, u64 |-> c] ELSE NoData

\* _u32p if flags else _ffi.NULL
OutPtr(want, ptr) == IF want THEN ptr ELSE NULL

\* OMcache.get
Get ==
    /\ Usable
    /\ \E arg \in TimeoutArgs, flags \in BOOLEAN, cas \in BOOLEAN,
          ret \in DataStatuses(coreBuffering, queue),
          buf \in BufVals, f \in FlagVals, c \in U64Vals :
           LET flagsp == OutPtr(flags, "_u32p")
               casp == OutPtr(cas, "_u64p")
           IN  /\ GetWrites(ret, flagsp, casp, buf, f, c)
               /\ queue' = Enqueue(queue, ret)
               /\ last' = Call("get", "omcache_get", arg,
                               Some(EffTimeout(arg, io_timeout)), flags, cas,
                               flagsp, casp,
                               GetData(ret, flagsp, casp, buf, f, c), ret,
                               GetResult(_omc_check("omcache_get", ret, TRUE,
                                                    _cucpp', _sizep'),
                                         flags, cas, _u32p', _u64p'),
                               None)
    /\ UNCHANGED <<_buffering, _conn_timeout, _reconn_timeout, _dead_timeout,
                   io_timeout, coreBuffering>>
    /\ Rest

\* the body shared by increment and decrement
Counter(native, func) ==
    /\ Usable
    /\ \E arg \in TimeoutArgs, ret \in DataStatuses(coreBuffering, queue), c \in U64Vals :
           /\ CounterWrites(ret, c)
           /\ queue' = Enqueue(queue, ret)
           /\ last' = Call(func, native, arg, Some(EffTimeout(arg, io_timeout)),
                           FALSE, FALSE, NULL, "_u64p", CounterData(ret, c), ret,
                           CounterResult(_omc_check(native, ret, FALSE, _cucpp', _sizep'),
                                         _u64p'),
                           None)
    /\ UNCHANGED <<_buffering, _conn_timeout, _reconn_timeout, _dead_timeout,
                   io_timeout, coreBuffering>>
    /\ Rest

\* OMcache.increment
Increment == Counter("omcache_increment", "increment")
\* OMcache.decrement
Decrement == Counter("omcache_decrement", "decrement")

Next ==
    \/ SetServers
    \/ SetConnectTimeout
    \/ SetReconnectTimeout
    \/ SetDeadTimeout
    \/ SetBuffering
    \/ SetIoTimeout
    \/ ResetBuffers
    \/ Flush
    \/ Noop
    \/ Stat
    \/ Set
    \/ Add
    \/ Replace
    \/ Delete
    \/ Get
    \/ Increment
    \/ Decrement
    \/ Del

Spec == Init /\ [][Next]_vars

----------------------------------------------------------------------------
(* Two threads, each with a client of its own, sharing the module-level    *)
(* scratch cells.  A native call runs without the interpreter lock, so the *)
(* other thread may run between a native call and the reading of the       *)
(* scratch cells that follows it.                                          *)

\* the data the server of thread t's client holds
ServerBufs(t) == {<<t>>, <<t, t + 2>>}
ServerFlags(t) == {10 * t}
ServerU64(t) == {100 * t}

ThreadStatuses == {OMCACHE_OK, OMCACHE_NOT_FOUND}

\* the clients of the threads are constructed and left alone
InitT ==
    /\ \E h \in Handles : OMcacheInit(TRUE, h, OMCACHE_OK)
    /\ InitGlobals
    /\ InitThreads

\* OMcache.get up to the return of omcache_get
TGetCall(t) ==
    /\ tpc[t] = "idle"
    /\ \E flags \in BOOLEAN, cas \in BOOLEAN, ret \in ThreadStatuses,
          buf \in ServerBufs(t), f \in ServerFlags(t), c \in ServerU64(t) :
           LET flagsp == OutPtr(flags, "_u32p")
               casp == OutPtr(cas, "_u64p")
               d == GetData(ret, flagsp, casp, buf, f, c)
           IN  /\ GetWrites(ret, flagsp, casp, buf, f, c)
               /\ tcall' = [tcall EXCEPT ![t] =
                               [op |-> "get", native |-> "omcache_get", flags |-> flags,
                                cas |-> cas, ret |-> ret, buf |-> d.buf, u32 |-> d.u32,
                                u64 |-> d.u64]]
    /\ tpc' = [tpc EXCEPT ![t] = "checking"]
    /\ UNCHANGED tres /\ UNCHANGED cvars

\* OMcache.increment / decrement up to the return of the native call
TCounterCall(t) ==
    /\ tpc[t] = "idle"
    /\ \E f \in {"increment", "decrement"}, ret \in ThreadStatuses, c \in ServerU64(t) :
           LET d == CounterData(ret, c)
           IN  /\ CounterWrites(ret, c)
               /\ tcall' = [tcall EXCEPT ![t] =
                               [op |-> f,
                                native |-> IF f = "increment" THEN "omcache_increment"
                                           ELSE "omcache_decrement",
                                flags |-> FALSE, cas |-> FALSE, ret |-> ret,
                                buf |-> d.buf, u32 |-> d.u32, u64 |-> d.u64]]
    /\ tpc' = [tpc EXCEPT ![t] = "checking"]
    /\ UNCHANGED tres /\ UNCHANGED cvars

\* the rest of get, increment or decrement: _omc_check and the reading of
\* the scratch cells
TReturn(t) ==
    /\ tpc[t] = "checking"
    /\ LET c == tcall[t]
       IN  tres' = [tres EXCEPT ![t] =
                       IF c.op = "get"
                       THEN GetResult(_omc_check(c.native, c.ret, TRUE, _cucpp, _sizep),
                                      c.flags, c.cas, _u32p, _u64p)
                       ELSE CounterResult(_omc_check(c.native, c.ret, FALSE, _cucpp, _sizep),
                                          _u64p)]
    /\ tpc' = [tpc EXCEPT ![t] = "done"]
    /\ UNCHANGED tcall /\ UNCHANGED gvars /\ UNCHANGED cvars

\* the thread goes on to its next call
TAgain(t) ==
    /\ tpc[t] = "done"
    /\ tpc' = [tpc EXCEPT ![t] = "idle"]
    /\ tcall' = [tcall EXCEPT ![t] = NoCall]
    /\ tres' = [tres EXCEPT ![t] = NoResult]
    /\ UNCHANGED gvars /\ UNCHANGED cvars

NextT == \E t \in Threads : TGetCall(t) \/ TCounterCall(t) \/ TReturn(t) \/ TAgain(t)

SpecT == InitT /\ [][NextT]_vars

----------------------------------------------------------------------------
(* The claims *)

ConfigOps == {"set_servers", "connect_timeout", "reconnect_timeout", "dead_timeout",
              "buffering", "reset_buffers"}
Setters == {"connect_timeout", "reconnect_timeout", "dead_timeout", "buffering"}
DataOps == {"noop", "stat", "set", "add", "replace", "delete", "get",
            "increment", "decrement"}
DecoratedOps == ConfigOps \cup {"flush", "noop", "stat", "set", "add", "replace", "delete"}
ClientOps == ConfigOps \cup {"flush"} \cup DataOps

\* what the getter of a setter's property returns now
Getter(op) ==
    IF op = "connect_timeout" THEN _conn_timeout
    ELSE IF op = "reconnect_timeout" THEN _reconn_timeout
    ELSE IF op = "dead_timeout" THEN _dead_timeout
    ELSE Some(_buffering)

\* C1: for every client operation and every status of the core, a status
\* other than OK or BUFFERED makes the call raise; it raises NotFoundError
\* exactly for NOT_FOUND, KeyExistsError exactly for KEY_EXISTS, and
\* otherwise a CommandError whose status is the status returned.
C1_StatusRaises ==
    last.op \in ClientOps =>
        /\ (last.ret \notin {OMCACHE_OK, OMCACHE_BUFFERED} => last.out.kind = "raise")
        /\ (last.out.exc = "NotFoundError" <=> last.ret = OMCACHE_NOT_FOUND)
        /\ (last.out.exc = "KeyExistsError" <=> last.ret = OMCACHE_KEY_EXISTS)
        /\ (last.out.kind = "raise" /\ last.ret \notin {OMCACHE_NOT_FOUND, OMCACHE_KEY_EXISTS}
              => last.out.exc = "CommandError")
        /\ (last.out.kind = "raise" => last.out.status = Some(last.ret))

\* C1 witness: the dead_timeout setter, whose native call returned the error
\* status AGAIN, has raised a CommandError carrying that status
C1_Witness ==
    /\ last.op = "dead_timeout"
    /\ last.ret = OMCACHE_AGAIN
    /\ last.out.exc = "CommandError"
    /\ last.out.status = Some(OMCACHE_AGAIN)

\* C2: with buffering enabled, a data operation for which the core reports
\* BUFFERED returns normally with a buffered indicator (the BUFFERED status,
\* or None from increment and decrement), for every data operation.
C2_BufferedReturns ==
    (_buffering /\ coreBuffering /\ last.op \in DataOps /\ last.ret = OMCACHE_BUFFERED) =>
        /\ last.out.kind = "return"
        /\ \/ last.out.status = Some(OMCACHE_BUFFERED)
           \/ last.out.type = "NoneType"

\* the result the call in progress of thread t has by its own native call
OwnResult(t) ==
    LET c == tcall[t]
    IN  IF c.op = "get"
        THEN GetResult(_omc_check(c.native, c.ret, TRUE, c.buf, Len(c.buf)),
                       c.flags, c.cas, c.u32, c.u64)
        ELSE CounterResult(_omc_check(c.native, c.ret, FALSE, c.buf, Len(c.buf)), c.u64)

\* C3: with one client per thread, every get returns the value, flags and
\* CAS token its own native call produced and every increment / decrement
\* the counter its own native call produced.
C3_OwnData ==
    \A t \in Threads : tpc[t] = "done" => tres[t] = OwnResult(t)

\* C4: the timeout handed to the core by a data operation is the per-call
\* timeout when one is supplied, 0 included, and otherwise the io_timeout of
\* the client at the call: 1000 after construction or the value last assigned.
C4_TimeoutChosen ==
    last.op \in DataOps =>
        /\ (last.arg # None => last.timeout = last.arg)
        /\ (last.arg = None => last.timeout = last.io)
        /\ last.io \in {Some(DefaultIoTimeout)} \cup {Some(m) : m \in MsecVals}

\* C4 witness: a get with the per-call timeout 0 on a client whose io_timeout
\* was assigned 250 has handed 0 to the core
C4_Witness ==
    /\ last.op = "get"
    /\ last.arg = Some(0)
    /\ last.io = Some(250)
    /\ last.timeout = Some(0)

\* C5: every data operation and every flush, one without a timeout argument
\* included, hands the core a finite timeout that is not negative.
C5_TimeoutBounded ==
    last.op \in DataOps \cup {"flush"} =>
        /\ last.timeout # None
        /\ last.timeout[1] >= 0

\* C6: with buffering enabled, a flush after N queued operations delivers
\* exactly N responses to the caller in issue order, and a flush after
\* reset_buffers delivers none and leaves nothing pending.
C6_FlushDelivers ==
    (last.op = "flush" /\ last.ret = OMCACHE_OK /\ _buffering /\ coreBuffering) =>
        /\ last.out.kind = "return"
        /\ last.out.items = last.pending
        /\ queue = <<>>

\* C7: a successful get returns the value alone, (value, flags), (value, cas)
\* or (value, flags, cas) as the flags and cas arguments say, and asks the
\* core for flags and CAS token only when the caller asked for them.
C7_GetShape ==
    (last.op = "get" /\ last.ret = OMCACHE_OK) =>
        /\ last.out.kind = "return"
        /\ (last.flagsp # NULL <=> last.flags)
        /\ (last.casp # NULL <=> last.cas)
        /\ (~last.flags /\ ~last.cas =>
               last.out.type = "bytes" /\ last.out.items = <<last.core.buf>>)
        /\ (last.flags /\ ~last.cas =>
               last.out.type = "tuple" /\ last.out.items = <<last.core.buf, last.core.u32>>)
        /\ (~last.flags /\ last.cas =>
               last.out.type = "tuple" /\ last.out.items = <<last.core.buf, last.core.u64>>)
        /\ (last.flags /\ last.cas =>
               /\ last.out.type = "tuple"
               /\ last.out.items = <<last.core.buf, last.core.u32, last.core.u64>>)

\* C7 witness: a get asking for flags and CAS token has returned the triple
C7_Witness ==
    /\ last.op = "get"
    /\ last.ret = OMCACHE_OK
    /\ last.flags /\ last.cas
    /\ last.out.items = <<<<2, 3>>, 7, 42>>

\* C8: when a setter's native call returns an error status and the setter
\* raises, the getter still returns what it returned before the assignment.
C8_SetterKeeps ==
    (last.op \in Setters /\ last.out.kind = "raise") => Getter(last.op) = last.before

\* C9: over any sequence of __del__ invocations omcache_free is called at
\* most once, only with a handle omcache_init returned for the object, and
\* after it self.omc is None.
C9_FreedOnce ==
    /\ Len(freed) <= 1
    /\ \A i \in 1..Len(freed) : freed[i] \in initReturned
    /\ (Len(freed) >= 1 => omc = "None")

\* C9 witness: __del__ has run twice on an object whose constructor failed
\* in set_servers, and the handle was released
C9_Witness ==
    /\ ndel = 2
    /\ io_timeout = None
    /\ Len(freed) = 1
    /\ omc = "None"

\* C10: a generic CommandError raised by a decorated operation carries a
\* message prefixed with the native function name given to the decorator.
C10_NativePrefix ==
    (last.op \in DecoratedOps /\ last.out.exc = "CommandError") =>
        last.out.msg.prefix = last.native

====
